---- MODULE Spec2Model ----
(***************************************************************************)
(* Model of bot.py: the multi-source price aggregator fetch_market_prices  *)
(* with its last-known-price cache, the report builder build_report_text   *)
(* and the timestamp normaliser parse_timestamp_utc.                       *)
(***************************************************************************)
EXTENDS Integers, Sequences, FiniteSets, TLC

(***************************************************************************)
(* Bounds of the model.                                                    *)
(***************************************************************************)
\* Prices the live sources deliver are 0 .. MaxPrice.
MaxPrice == 1
\* Longest "result" list of the combined quote provider.
MaxItems == 2
\* Most data rows of the time-series CSV.
MaxRows == 2

Prices == 0 .. MaxPrice

(***************************************************************************)
(* Values.  A Python "float | None" is None or Some(v).  A JSON or CSV     *)
(* field is a number (or numeric text), a text that is no number, or null. *)
(***************************************************************************)
None == <<>>
Some(v) == <<v>>

Num(n) == [kind |-> "num", txt |-> "", num |-> n]
Txt(s) == [kind |-> "txt", txt |-> s, num |-> 0]
Null == [kind |-> "null", txt |-> "", num |-> 0]

\* Mutant: a text that is no number reads as zero.
FloatOfLenient(x) == IF x.kind = "num" THEN Some(x.num) ELSE Some(0)

\* float(x): the number, or None when float raises (ValueError, TypeError).
FloatOf(x) == IF x.kind = "num" THEN Some(x.num) ELSE None

\* x in {a, b} for a field x and texts a, b.
IsText(x, texts) == x.kind = "txt" /\ x.txt \in texts

Instruments == {"BTC", "SPX"}

\* The handlers that build a report: the /fg command and the scheduled job.
Handlers == {"fg", "scheduled_report"}

(***************************************************************************)
(* Responses of the live sources.  kind "ok" is a 2xx response whose body  *)
(* parsed as far as the code looks before the part the model keeps in      *)
(* body; the other kinds are the failures that raise before that.          *)
(***************************************************************************)
Response(src, kind, body) == [src |-> src, kind |-> kind, body |-> body]

NoResponse == Response("", "", <<>>)

JsonFailures == {"transport", "status", "malformed", "missing_key"}
CsvFailures == {"transport", "status"}

RECURSIVE SeqsUpTo(_, _)
SeqsUpTo(S, n) ==
    IF n = 0 THEN {<<>>}
    ELSE LET shorter == SeqsUpTo(S, n - 1)
         IN  shorter \cup {Append(q, x) : q \in {r \in shorter : Len(r) = n - 1}, x \in S}

\* An item of quoteResponse.result: a JSON object with symbol and
\* regularMarketPrice, or something that is no object.
Item(symbol, price) == [dict |-> TRUE, symbol |-> symbol, price |-> price]
NonDict == [dict |-> FALSE, symbol |-> "", price |-> Null]

YahooItems ==
    {Item(s, v) : s \in {"BTC-USD", "^GSPC"},
                  v \in {Num(p) : p \in Prices} \cup {Null, Txt("n/a")}}
    \cup {NonDict}

YahooResponses ==
    {Response("yahoo", k, <<>>) : k \in JsonFailures}
    \cup {Response("yahoo", "ok", items) : items \in SeqsUpTo(YahooItems, MaxItems)}

\* data.amount (Coinbase) or bitcoin.usd (CoinGecko).
AmountFields == {Num(p) : p \in Prices} \cup {Null, Txt("n/a")}

CoinbaseResponses ==
    {Response("coinbase", k, <<>>) : k \in JsonFailures}
    \cup {Response("coinbase", "ok", <<a>>) : a \in AmountFields}

CoinGeckoResponses ==
    {Response("coingecko", k, <<>>) : k \in JsonFailures}
    \cup {Response("coingecko", "ok", <<a>>) : a \in AmountFields}

\* CSV text as its non-blank lines, each split on ",".
CsvValues == {Num(p) : p \in Prices} \cup {Txt(""), Txt("N/D"), Txt(".")}

StooqHeader ==
    <<Txt("Symbol"), Txt("Date"), Txt("Time"), Txt("Open"), Txt("High"),
      Txt("Low"), Txt("Close"), Txt("Volume")>>
StooqRow(close) ==
    <<Txt("^SPX"), Txt("date"), Txt("time"), Txt("open"), Txt("high"),
      Txt("low"), close, Txt("volume")>>
StooqShortRow == <<Txt("^SPX"), Txt("N/D")>>

StooqResponses ==
    {Response("stooq", k, <<>>) : k \in CsvFailures}
    \cup {Response("stooq", "ok", lines) :
            lines \in {<<>>, <<StooqHeader>>, <<StooqHeader, StooqShortRow>>}
                      \cup {<<StooqHeader, StooqRow(c)>> : c \in CsvValues}}

FredHeader == <<Txt("DATE"), Txt("SP500")>>
FredRows == {<<Txt("date"), v>> : v \in CsvValues} \cup {<<Txt("date")>>}

FredResponses ==
    {Response("fred", k, <<>>) : k \in CsvFailures}
    \cup {Response("fred", "ok", <<>>)}
    \cup {Response("fred", "ok", <<FredHeader>> \o rows) : rows \in SeqsUpTo(FredRows, MaxRows)}

(***************************************************************************)
(* fetch_market_prices: the try blocks.  The function's locals are a       *)
(* record [btc, spx, raised]; raised says that an exception is on its way  *)
(* out of the statement.  A try body keeps the assignments made before it  *)
(* raised.                                                                 *)
(***************************************************************************)
Locals(b, s) == [btc |-> b, spx |-> s, raised |-> FALSE]
\* Mutant: an exception undoes the assignments made so far.
RaiseDropsLocals(L) == [btc |-> None, spx |-> None, raised |-> TRUE]

Raise(L) == [L EXCEPT !.raised = TRUE]

\* Mutant: the try block without its except clause.
ExceptPropagates(L) == L

\* except Exception: pass
ExceptPass(L) == [L EXCEPT !.raised = FALSE]

\* for item in results: ... (lines 122-128)
RECURSIVE YahooLoop(_, _, _)
YahooLoop(items, i, L) ==
    IF i > Len(items) THEN L
    ELSE LET item == items[i]
             isBtc == item.symbol = "BTC-USD" /\ item.price.kind # "null"
             isSpx == item.symbol = "^GSPC" /\ item.price.kind # "null"
         IN  IF ~item.dict THEN Raise(L)
             ELSE IF (isBtc \/ isSpx) /\ FloatOf(item.price) = None THEN Raise(L)
             ELSE YahooLoop(items, i + 1,
                            [L EXCEPT !.btc = IF isBtc THEN FloatOf(item.price) ELSE @,
                                      !.spx = IF isSpx THEN FloatOf(item.price) ELSE @])

YahooTry(L, r) ==
    IF r.kind # "ok" THEN Raise(L) ELSE YahooLoop(r.body, 1, L)

CoinbaseTry(L, r) ==
    IF r.kind # "ok" \/ FloatOf(r.body[1]) = None THEN Raise(L)
    ELSE [L EXCEPT !.btc = FloatOf(r.body[1])]

CoinGeckoTry(L, r) ==
    IF r.kind # "ok" \/ FloatOf(r.body[1]) = None THEN Raise(L)
    ELSE [L EXCEPT !.btc = FloatOf(r.body[1])]

StooqTry(L, r) ==
    IF r.kind # "ok" THEN Raise(L)
    ELSE IF Len(r.body) >= 2
         THEN LET row == r.body[2]
              IN  IF Len(row) > 6 /\ ~IsText(row[7], {"", "N/D"})
                  THEN IF FloatOf(row[7]) = None THEN Raise(L)
                       ELSE [L EXCEPT !.spx = FloatOf(row[7])]
                  ELSE L
         ELSE L

\* for line in reversed(rows[1:]): ... (lines 180-184); i is the row looked at.
RECURSIVE FredLoop(_, _, _)
FredLoop(rows, i, L) ==
    IF i < 2 THEN L
    ELSE LET parts == rows[i]
         IN  IF Len(parts) >= 2 /\ ~IsText(parts[2], {"", "."})
             THEN IF FloatOf(parts[2]) = None THEN Raise(L)
                  ELSE [L EXCEPT !.spx = FloatOf(parts[2])]
             ELSE FredLoop(rows, i - 1, L)

FredTry(L, r) ==
    IF r.kind # "ok" THEN Raise(L) ELSE FredLoop(r.body, Len(r.body), L)

Sources == <<"yahoo", "coinbase", "coingecko", "stooq", "fred">>

\* The body of the try block of a source, applied to the locals and the response.
TryBody(src, L, r) ==
    CASE src = "yahoo" -> YahooTry(L, r)
      [] src = "coinbase" -> CoinbaseTry(L, r)
      [] src = "coingecko" -> CoinGeckoTry(L, r)
      [] src = "stooq" -> StooqTry(L, r)
      [] src = "fred" -> FredTry(L, r)

\* try: ... except Exception: pass
Block(src, L, r) == ExceptPass(TryBody(src, L, r))

\* Mutant: every fallback block runs, whatever is resolved already.
WantsAlways(src, L) == TRUE

\* Mutant: the S&P fallbacks run only once BTC is resolved.
WantsCoupled(src, L) ==
    IF src \in {"coinbase", "coingecko"} THEN L.btc = None
    ELSE L.spx = None /\ L.btc # None

\* Mutant: the time series is asked whatever is resolved already.
WantsFredAlways(src, L) ==
    IF src \in {"coinbase", "coingecko"} THEN L.btc = None
    ELSE src = "fred" \/ L.spx = None

\* The guard of a fallback block: if btc_price is None / if spx_price is None.
Wants(src, L) ==
    IF src \in {"coinbase", "coingecko"} THEN L.btc = None ELSE L.spx = None

\* Where control goes from before block k of Sources: the first block from k on
\* whose guard holds, or the cache fallback.
RECURSIVE NextRequest(_, _)
NextRequest(k, L) ==
    IF k > Len(Sources) THEN "fallback_btc"
    ELSE IF Wants(Sources[k], L) THEN Sources[k]
    ELSE NextRequest(k + 1, L)

IndexOf(src) == CHOOSE k \in 1 .. Len(Sources) : Sources[k] = src

ResponsesOf(src) ==
    CASE src = "yahoo" -> YahooResponses
      [] src = "coinbase" -> CoinbaseResponses
      [] src = "coingecko" -> CoinGeckoResponses
      [] src = "stooq" -> StooqResponses
      [] src = "fred" -> FredResponses

\* What a response delivers by itself: the try body applied to empty locals
\* (raised: the response made the body raise).
Yield(src, r) == TryBody(src, Locals(None, None), r)

(***************************************************************************)
(* State.                                                                  *)
(***************************************************************************)
VARIABLES
    LAST_BTC_PRICE,  \* the cache slots (lines 27-28)
    LAST_SPX_PRICE,
    pc,              \* per handler: where its invocation is
    btc_price,       \* per handler: the locals of fetch_market_prices
    spx_price,
    fell_back,       \* per handler: the instruments it took from the cache
    overtaken,       \* per handler: a fresher live BTC price was stored after it read the cache
    last_result,     \* the outcome of the invocation that ended last
    resp,            \* the response handled last
    log,             \* the invocation in progress (or ended last): what each source asked delivered
    cache0,          \* ... and the cache slots when it started
    rpc,             \* build_report_text: where the build in progress is
    stock_block,     \* build_report_text: its locals
    crypto_block,
    prices_block,
    attempts,        \* the fetches the build has made, with their outcomes
    report,          \* the text the build that ended last returned
    ts_case,         \* parse_timestamp_utc: the instant and the form it is given in
    ts_input,        \* ... its argument
    ts_output        \* ... what it returned or raised

vars ==
    <<LAST_BTC_PRICE, LAST_SPX_PRICE, pc, btc_price, spx_price, fell_back,
      overtaken, last_result, resp, log, cache0,
      rpc, stock_block, crypto_block, prices_block, attempts, report,
      ts_case, ts_input, ts_output>>

cacheVars == <<LAST_BTC_PRICE, LAST_SPX_PRICE>>
histVars == <<resp, log, cache0>>
fetchVars == <<pc, btc_price, spx_price, fell_back, overtaken, last_result, histVars>>
reportVars == <<rpc, stock_block, crypto_block, prices_block, attempts, report>>
tsVars == <<ts_case, ts_input, ts_output>>

NoResult == [kind |-> "none", btc |-> None, spx |-> None]

NoBlock == [kind |-> "none", text |-> <<>>]
NoTimestamp == [form |-> "none"]

InitFetch ==
    /\ LAST_BTC_PRICE = None
    /\ LAST_SPX_PRICE = None
    /\ pc = [p \in Handlers |-> "idle"]
    /\ btc_price = [p \in Handlers |-> None]
    /\ spx_price = [p \in Handlers |-> None]
    /\ fell_back = [p \in Handlers |-> {}]
    /\ overtaken = [p \in Handlers |-> FALSE]
    /\ last_result = NoResult
    /\ resp = NoResponse
    /\ log = <<>>
    /\ cache0 = <<None, None>>

InitReport ==
    /\ rpc = "idle"
    /\ stock_block = NoBlock
    /\ crypto_block = NoBlock
    /\ prices_block = NoBlock
    /\ attempts = <<>>
    /\ report = <<>>

InitNoTimestamp ==
    /\ ts_case = <<>>
    /\ ts_input = NoTimestamp
    /\ ts_output = NoTimestamp

Init == InitFetch /\ InitReport /\ InitNoTimestamp

LocalsOf(p) == Locals(btc_price[p], spx_price[p])

(***************************************************************************)
(* fetch_market_prices, one request per step.  Handlers are coroutines of  *)
(* one event loop and build_report_text awaits nothing, so an invocation   *)
(* starts only when no other is in progress.                               *)
(***************************************************************************)
Start(p) ==
    /\ \A q \in Handlers : pc[q] = "idle"
    /\ pc' = [pc EXCEPT ![p] = "yahoo"]
    /\ btc_price' = [btc_price EXCEPT ![p] = None]
    /\ spx_price' = [spx_price EXCEPT ![p] = None]
    /\ log' = <<>>
    /\ resp' = NoResponse
    /\ cache0' = <<LAST_BTC_PRICE, LAST_SPX_PRICE>>
    /\ UNCHANGED <<cacheVars, fell_back, overtaken, last_result>>
    /\ UNCHANGED <<reportVars, tsVars>>

\* The request to src and the block around it, then on to the next request.
Request(p, src) ==
    /\ pc[p] = src
    /\ \E r \in ResponsesOf(src) :
          LET L == Block(src, LocalsOf(p), r)
              y == Yield(src, r)
          IN  /\ resp' = r
              /\ log' = Append(log, [src |-> src, btc |-> y.btc, spx |-> y.spx])
              /\ btc_price' = [btc_price EXCEPT ![p] = L.btc]
              /\ spx_price' = [spx_price EXCEPT ![p] = L.spx]
              /\ IF L.raised
                 THEN /\ pc' = [pc EXCEPT ![p] = "idle"]
                      /\ last_result' = [kind |-> "source_error", btc |-> None, spx |-> None]
                 ELSE /\ pc' = [pc EXCEPT ![p] = NextRequest(IndexOf(src) + 1, L)]
                      /\ UNCHANGED last_result
    /\ UNCHANGED <<cacheVars, fell_back, overtaken, cache0>>
    /\ UNCHANGED <<reportVars, tsVars>>

Yahoo(p) == Request(p, "yahoo")
Coinbase(p) == Request(p, "coinbase")
CoinGecko(p) == Request(p, "coingecko")
Stooq(p) == Request(p, "stooq")
Fred(p) == Request(p, "fred")

\* Mutant: the BTC fallback reads the S&P slot.
FallbackBtcWrongSlot(p) ==
    /\ pc[p] = "fallback_btc"
    /\ pc' = [pc EXCEPT ![p] = "fallback_spx"]
    /\ IF btc_price[p] = None
       THEN /\ btc_price' = [btc_price EXCEPT ![p] = LAST_SPX_PRICE]
            /\ fell_back' = [fell_back EXCEPT ![p] = @ \cup {"BTC"}]
       ELSE UNCHANGED <<btc_price, fell_back>>
    /\ resp' = NoResponse
    /\ UNCHANGED <<cacheVars, spx_price, overtaken, last_result, log, cache0>>
    /\ UNCHANGED <<reportVars, tsVars>>

\* if btc_price is None: btc_price = LAST_BTC_PRICE (lines 189-190)
FallbackBtc(p) ==
    /\ pc[p] = "fallback_btc"
    /\ pc' = [pc EXCEPT ![p] = "fallback_spx"]
    /\ IF btc_price[p] = None
       THEN /\ btc_price' = [btc_price EXCEPT ![p] = LAST_BTC_PRICE]
            /\ fell_back' = [fell_back EXCEPT ![p] = @ \cup {"BTC"}]
       ELSE UNCHANGED <<btc_price, fell_back>>
    /\ resp' = NoResponse
    /\ UNCHANGED <<cacheVars, spx_price, overtaken, last_result, log, cache0>>
    /\ UNCHANGED <<reportVars, tsVars>>

\* Mutant: the S&P 500 price is never taken from the cache.
FallbackSpxNever(p) ==
    /\ pc[p] = "fallback_spx"
    /\ pc' = [pc EXCEPT ![p] = "check"]
    /\ UNCHANGED <<cacheVars, btc_price, spx_price, fell_back, overtaken, last_result, histVars>>
    /\ UNCHANGED <<reportVars, tsVars>>

\* if spx_price is None: spx_price = LAST_SPX_PRICE (lines 191-192)
FallbackSpx(p) ==
    /\ pc[p] = "fallback_spx"
    /\ pc' = [pc EXCEPT ![p] = "check"]
    /\ IF spx_price[p] = None
       THEN /\ spx_price' = [spx_price EXCEPT ![p] = LAST_SPX_PRICE]
            /\ fell_back' = [fell_back EXCEPT ![p] = @ \cup {"SPX"}]
       ELSE UNCHANGED <<spx_price, fell_back>>
    /\ UNCHANGED <<cacheVars, btc_price, overtaken, last_result, histVars>>
    /\ UNCHANGED <<reportVars, tsVars>>

\* Mutant: raise only when both prices are missing.
MustRaiseBoth(b, s) == b = None /\ s = None

\* Mutant: the check never raises.
MustRaiseNever(b, s) == FALSE

\* if btc_price is None or spx_price is None: raise ValueError(...) (lines 194-195)
MustRaise(b, s) == b = None \/ s = None

\* Mutant: the prices obtained are cached before the check raises.
CheckCachingFirst(p) ==
    /\ pc[p] = "check"
    /\ IF MustRaise(btc_price[p], spx_price[p])
       THEN /\ pc' = [pc EXCEPT ![p] = "idle"]
            /\ last_result' = [kind |-> "ValueError", btc |-> None, spx |-> None]
            /\ fell_back' = [fell_back EXCEPT ![p] = {}]
            /\ overtaken' = [overtaken EXCEPT ![p] = FALSE]
            /\ btc_price' = [btc_price EXCEPT ![p] = None]
            /\ spx_price' = [spx_price EXCEPT ![p] = None]
            /\ LAST_BTC_PRICE' = IF btc_price[p] = None THEN LAST_BTC_PRICE ELSE btc_price[p]
            /\ LAST_SPX_PRICE' = IF spx_price[p] = None THEN LAST_SPX_PRICE ELSE spx_price[p]
       ELSE /\ pc' = [pc EXCEPT ![p] = "write_btc"]
            /\ UNCHANGED <<last_result, fell_back, overtaken, btc_price, spx_price>>
            /\ UNCHANGED cacheVars
    /\ UNCHANGED histVars
    /\ UNCHANGED <<reportVars, tsVars>>

Check(p) ==
    /\ pc[p] = "check"
    /\ IF MustRaise(btc_price[p], spx_price[p])
       THEN /\ pc' = [pc EXCEPT ![p] = "idle"]
            /\ last_result' = [kind |-> "ValueError", btc |-> None, spx |-> None]
            /\ fell_back' = [fell_back EXCEPT ![p] = {}]
            /\ overtaken' = [overtaken EXCEPT ![p] = FALSE]
            /\ btc_price' = [btc_price EXCEPT ![p] = None]
            /\ spx_price' = [spx_price EXCEPT ![p] = None]
       ELSE /\ pc' = [pc EXCEPT ![p] = "write_btc"]
            /\ UNCHANGED <<last_result, fell_back, overtaken, btc_price, spx_price>>
    /\ UNCHANGED <<cacheVars, histVars>>
    /\ UNCHANGED <<reportVars, tsVars>>

\* Who holds a cached BTC price it has not written back yet.
HoldsCachedBtc(q) ==
    /\ pc[q] \in {"fallback_spx", "check", "write_btc"}
    /\ "BTC" \in fell_back[q]

\* Mutant: a price taken from the cache is not written back over a slot that
\* changed in the meantime.
WriteBtcUnlessStale(p) ==
    /\ pc[p] = "write_btc"
    /\ LAST_BTC_PRICE' = IF "BTC" \in fell_back[p] THEN LAST_BTC_PRICE ELSE btc_price[p]
    /\ pc' = [pc EXCEPT ![p] = "write_spx"]
    /\ overtaken' = [q \in Handlers |->
                        \/ overtaken[q]
                        \/ /\ q # p
                           /\ HoldsCachedBtc(q)
                           /\ "BTC" \notin fell_back[p]
                           /\ btc_price[q] # btc_price[p]]
    /\ UNCHANGED <<LAST_SPX_PRICE, btc_price, spx_price, fell_back, last_result, histVars>>
    /\ UNCHANGED <<reportVars, tsVars>>

\* LAST_BTC_PRICE = btc_price (line 197)
WriteBtc(p) ==
    /\ pc[p] = "write_btc"
    /\ LAST_BTC_PRICE' = btc_price[p]
    /\ pc' = [pc EXCEPT ![p] = "write_spx"]
    /\ overtaken' = [q \in Handlers |->
                        \/ overtaken[q]
                        \/ /\ q # p
                           /\ HoldsCachedBtc(q)
                           /\ "BTC" \notin fell_back[p]
                           /\ btc_price[q] # btc_price[p]]
    /\ UNCHANGED <<LAST_SPX_PRICE, btc_price, spx_price, fell_back, last_result, histVars>>
    /\ UNCHANGED <<reportVars, tsVars>>

\* Mutant: the S&P slot gets the BTC price.
WriteSpxCopy(p) ==
    /\ pc[p] = "write_spx"
    /\ LAST_SPX_PRICE' = btc_price[p]
    /\ pc' = [pc EXCEPT ![p] = "return"]
    /\ UNCHANGED <<LAST_BTC_PRICE, btc_price, spx_price, fell_back, overtaken,
                   last_result, histVars>>
    /\ UNCHANGED <<reportVars, tsVars>>

\* LAST_SPX_PRICE = spx_price (line 198)
WriteSpx(p) ==
    /\ pc[p] = "write_spx"
    /\ LAST_SPX_PRICE' = spx_price[p]
    /\ pc' = [pc EXCEPT ![p] = "return"]
    /\ UNCHANGED <<LAST_BTC_PRICE, btc_price, spx_price, fell_back, overtaken,
                   last_result, histVars>>
    /\ UNCHANGED <<reportVars, tsVars>>

\* return btc_price, spx_price (line 200)
Return(p) ==
    /\ pc[p] = "return"
    /\ pc' = [pc EXCEPT ![p] = "idle"]
    /\ last_result' = [kind |-> "ok", btc |-> btc_price[p], spx |-> spx_price[p]]
    /\ btc_price' = [btc_price EXCEPT ![p] = None]
    /\ spx_price' = [spx_price EXCEPT ![p] = None]
    /\ fell_back' = [fell_back EXCEPT ![p] = {}]
    /\ overtaken' = [overtaken EXCEPT ![p] = FALSE]
    /\ UNCHANGED <<cacheVars, histVars>>
    /\ UNCHANGED <<reportVars, tsVars>>

Next ==
    \E p \in Handlers :
        \/ Start(p)
        \/ Yahoo(p)
        \/ Coinbase(p)
        \/ CoinGecko(p)
        \/ Stooq(p)
        \/ Fred(p)
        \/ FallbackBtc(p)
        \/ FallbackSpx(p)
        \/ Check(p)
        \/ WriteBtc(p)
        \/ WriteSpx(p)
        \/ Return(p)

Spec == Init /\ [][Next]_vars

(***************************************************************************)
(* Overlapping invocations: section 5 of the specification lets the        *)
(* framework run handlers concurrently.  The requests of an invocation     *)
(* touch only its locals, so its live phase (lines 109-186) is one step    *)
(* here; the cache reads and writes are the steps of Spec.                 *)
(***************************************************************************)
\* The locals the blocks from k on can leave, starting from the locals Ls.
RECURSIVE LiveFrom(_, _)
LiveFrom(k, Ls) ==
    IF k > Len(Sources) THEN Ls
    ELSE LiveFrom(k + 1,
            UNION {IF k = 1 \/ Wants(Sources[k], L)
                   THEN {Block(Sources[k], L, r) : r \in ResponsesOf(Sources[k])}
                   ELSE {L} : L \in Ls})

LiveResults == LiveFrom(1, {Locals(None, None)})

StartLive(p) ==
    /\ pc[p] = "idle"
    /\ \E L \in LiveResults :
          /\ btc_price' = [btc_price EXCEPT ![p] = L.btc]
          /\ spx_price' = [spx_price EXCEPT ![p] = L.spx]
    /\ pc' = [pc EXCEPT ![p] = "fallback_btc"]
    /\ UNCHANGED <<cacheVars, fell_back, overtaken, last_result, histVars>>
    /\ UNCHANGED <<reportVars, tsVars>>

NextConc ==
    \E p \in Handlers :
        \/ StartLive(p)
        \/ FallbackBtc(p)
        \/ FallbackSpx(p)
        \/ Check(p)
        \/ WriteBtc(p)
        \/ WriteSpx(p)
        \/ Return(p)

SpecConc == Init /\ [][NextConc]_vars

(***************************************************************************)
(* Reading the log of the invocation in progress or ended last.            *)
(***************************************************************************)
Asked(src) == \E i \in 1 .. Len(log) : log[i].src = src

\* What src delivered for instrument X: None when it failed or was not asked.
DeliveredBy(src, X) ==
    IF Asked(src)
    THEN LET e == log[CHOOSE i \in 1 .. Len(log) : log[i].src = src]
         IN  IF X = "BTC" THEN e.btc ELSE e.spx
    ELSE None

\* The fixed order of the live sources of an instrument.
ChainOf(X) ==
    IF X = "BTC" THEN <<"yahoo", "coinbase", "coingecko">>
    ELSE <<"yahoo", "stooq", "fred">>

Succeeded(X) == {k \in 1 .. 3 : DeliveredBy(ChainOf(X)[k], X) # None}
FirstSuccess(X) == CHOOSE k \in Succeeded(X) : \A j \in Succeeded(X) : k <= j
FirstLivePrice(X) == DeliveredBy(ChainOf(X)[FirstSuccess(X)], X)

EveryLiveSourceFailed(X) ==
    \A k \in 1 .. 3 : Asked(ChainOf(X)[k]) /\ DeliveredBy(ChainOf(X)[k], X) = None

Slot(X) == IF X = "BTC" THEN LAST_BTC_PRICE ELSE LAST_SPX_PRICE
SlotAtStart(X) == IF X = "BTC" THEN cache0[1] ELSE cache0[2]
Returned(X) == IF X = "BTC" THEN last_result.btc ELSE last_result.spx

\* An invocation has ended and none is in progress: log, cache0 and
\* last_result are those of the invocation that ended last.
Ended == last_result.kind # "none" /\ \A p \in Handlers : pc[p] = "idle"

\* The step that ends an invocation of p.
EndStep(p) == pc[p] # "idle" /\ pc'[p] = "idle"

(***************************************************************************)
(* C1: when an invocation ends, the cache slot of every instrument for     *)
(* which a live source yielded a price holds exactly that price, whatever  *)
(* happened to the other instrument.                                       *)
(***************************************************************************)
C1_LivePriceIsCached ==
    Ended => \A X \in Instruments :
                Succeeded(X) # {} => Slot(X) = FirstLivePrice(X)

(***************************************************************************)
(* C2: the price returned for an instrument is the one delivered by the    *)
(* first source that succeeds in the fixed order, every source before it   *)
(* having been asked and having failed; the cached value is returned only  *)
(* when every live source of the instrument failed in this invocation.     *)
(***************************************************************************)
C2_FirstSuccessWins ==
    (Ended /\ last_result.kind = "ok") =>
        \A X \in Instruments :
            IF Succeeded(X) # {}
            THEN /\ Returned(X) = FirstLivePrice(X)
                 /\ \A j \in 1 .. FirstSuccess(X) - 1 : Asked(ChainOf(X)[j])
            ELSE /\ EveryLiveSourceFailed(X)
                 /\ Returned(X) = SlotAtStart(X)

\* The combined provider failed, the first dedicated BTC provider delivered 1
\* and 1 is returned; the S&P price came from the cache.
C2_Witness ==
    /\ Ended /\ last_result.kind = "ok"
    /\ DeliveredBy("yahoo", "BTC") = None /\ DeliveredBy("yahoo", "SPX") = None
    /\ DeliveredBy("coinbase", "BTC") = Some(1)
    /\ last_result.btc = Some(1)
    /\ EveryLiveSourceFailed("SPX") /\ last_result.spx = Some(0)

(***************************************************************************)
(* C3: a cache slot that holds a price never becomes empty again, and      *)
(* every step that changes a slot stores a non-null price that a live      *)
(* source delivered in the invocation taking the step (so, the slots       *)
(* starting empty, a slot only ever holds prices that live sources         *)
(* delivered in this or an earlier invocation).                            *)
(***************************************************************************)
C3_CacheOnlyGainsLivePrices ==
    [][/\ LAST_BTC_PRICE # None => LAST_BTC_PRICE' # None
       /\ LAST_SPX_PRICE # None => LAST_SPX_PRICE' # None
       /\ LAST_BTC_PRICE' # LAST_BTC_PRICE =>
             /\ LAST_BTC_PRICE' # None
             /\ \E i \in 1 .. Len(log) : log[i].btc = LAST_BTC_PRICE'
       /\ LAST_SPX_PRICE' # LAST_SPX_PRICE =>
             /\ LAST_SPX_PRICE' # None
             /\ \E i \in 1 .. Len(log) : log[i].spx = LAST_SPX_PRICE'
      ]_vars

\* An invocation has ended in which every live BTC source failed and a live
\* source delivered 0 for the S&P 500: the BTC slot kept its price 1 and the
\* S&P slot went from 1 to 0.
C3_Witness ==
    /\ Ended
    /\ EveryLiveSourceFailed("BTC")
    /\ LAST_BTC_PRICE = Some(1) /\ LAST_SPX_PRICE = Some(0)
    /\ SlotAtStart("SPX") = Some(1)

(***************************************************************************)
(* C4: an invocation fails with the aggregate error if and only if, for at *)
(* least one instrument, every live source failed and the cache slot was   *)
(* empty; a failed invocation returns no price; when all BTC sources fail  *)
(* and a cached BTC price exists, that price is returned.                  *)
(***************************************************************************)
C4_FailsIffUnresolvable ==
    Ended =>
        /\ last_result.kind = "ValueError" <=>
              \E X \in Instruments : EveryLiveSourceFailed(X) /\ SlotAtStart(X) = None
        /\ last_result.kind = "ValueError" =>
              last_result.btc = None /\ last_result.spx = None
        /\ (EveryLiveSourceFailed("BTC") /\ SlotAtStart("BTC") # None) =>
              last_result.kind = "ok" /\ last_result.btc = SlotAtStart("BTC")

\* A failure although a live source delivered a BTC price.
C4_Witness ==
    /\ Ended /\ last_result.kind = "ValueError"
    /\ Succeeded("BTC") # {}
    /\ EveryLiveSourceFailed("SPX")

(***************************************************************************)
(* C5: an invocation in which every live source fails for both             *)
(* instruments, following an invocation that returned (b, s), returns      *)
(* exactly (b, s) and leaves both cache slots as they were.                *)
(***************************************************************************)
C5_SecondCallRepeatsFirst ==
    [][\A p \in Handlers :
          (/\ EndStep(p)
           /\ last_result.kind = "ok"
           /\ EveryLiveSourceFailed("BTC") /\ EveryLiveSourceFailed("SPX"))
          => /\ last_result' = last_result
             /\ LAST_BTC_PRICE' = cache0[1] /\ LAST_SPX_PRICE' = cache0[2]
             /\ cache0 = <<last_result.btc, last_result.spx>>
      ]_vars

\* The second invocation has ended: everything failed, (1, 0) came back.
C5_Witness ==
    /\ Ended /\ last_result.kind = "ok"
    /\ EveryLiveSourceFailed("BTC") /\ EveryLiveSourceFailed("SPX")
    /\ last_result.btc = Some(1) /\ last_result.spx = Some(0)

(***************************************************************************)
(* C8: no failure of a price source propagates out of fetch_market_prices: *)
(* an invocation ends only by returning or with the aggregate error, and   *)
(* right after a response that made its try body raise (transport error,   *)
(* non-2xx status, malformed body, missing field, unparsable number) the   *)
(* invocation is at a later source of the chain or at the cache fallback.  *)
(***************************************************************************)
Stages == Sources \o <<"fallback_btc">>
StageIndex(at) == CHOOSE k \in 1 .. Len(Stages) : Stages[k] = at

C8_SourceFailuresSwallowed ==
    /\ last_result.kind \in {"none", "ok", "ValueError"}
    /\ (resp # NoResponse /\ Yield(resp.src, resp).raised) =>
          \E p \in Handlers :
              /\ pc[p] \in {Stages[k] : k \in 1 .. Len(Stages)}
              /\ StageIndex(pc[p]) > StageIndex(resp.src)

\* The first dedicated BTC provider answered with a body that is no JSON; the
\* invocation is about to ask the second one.
C8_Witness ==
    /\ resp.src = "coinbase" /\ resp.kind = "malformed"
    /\ \E p \in Handlers : pc[p] = "coingecko"

(***************************************************************************)
(* C9: the two instruments are resolved independently.  Once the live      *)
(* phase is over, which S&P 500 sources were asked depends only on what    *)
(* the S&P 500 sources before them delivered, and likewise for BTC; and    *)
(* when the combined result is checked each instrument holds its first     *)
(* live price or, every live source of it having failed, what its cache    *)
(* slot held.                                                              *)
(***************************************************************************)
LivePhaseOver ==
    \/ Ended
    \/ \E p \in Handlers :
          pc[p] \in {"fallback_btc", "fallback_spx", "check", "write_btc", "write_spx", "return"}

ResolvedAtCheck(X, local) ==
    IF Succeeded(X) # {} THEN local = FirstLivePrice(X)
    ELSE EveryLiveSourceFailed(X) /\ local = SlotAtStart(X)

C9_InstrumentsIndependent ==
    /\ LivePhaseOver =>
          /\ Asked("yahoo")
          /\ Asked("coinbase") <=> DeliveredBy("yahoo", "BTC") = None
          /\ Asked("coingecko") <=>
                DeliveredBy("yahoo", "BTC") = None /\ DeliveredBy("coinbase", "BTC") = None
          /\ Asked("stooq") <=> DeliveredBy("yahoo", "SPX") = None
          /\ Asked("fred") <=>
                DeliveredBy("yahoo", "SPX") = None /\ DeliveredBy("stooq", "SPX") = None
    /\ \A p \in Handlers :
          pc[p] = "check" =>
              /\ ResolvedAtCheck("BTC", btc_price[p])
              /\ ResolvedAtCheck("SPX", spx_price[p])

\* BTC could not be resolved at all, and the S&P 500 chain still ran to its
\* last live source, which delivered.
C9_Witness ==
    \E p \in Handlers :
        /\ pc[p] = "check"
        /\ EveryLiveSourceFailed("BTC") /\ btc_price[p] = None
        /\ DeliveredBy("fred", "SPX") = Some(1) /\ spx_price[p] = Some(1)

MaxShift == 1

\* The text of a number.  It is kept as its thousands and the rest,
\* value = 1000 * hi + lo, because 10^12 does not fit the integers here.
Number(hi, lo) ==
    [form |-> "number", hi |-> hi, lo |-> lo,
     year |-> 0, month |-> 0, day |-> 0, hour |-> 0, minute |-> 0, second |-> 0,
     tz |-> "", off |-> 0]

\* The text of an ISO datetime; tz is "Z", "offset" (off minutes east) or "naive".
IsoText(dt, tz, off) ==
    [form |-> "iso", hi |-> 0, lo |-> 0,
     year |-> dt.year, month |-> dt.month, day |-> dt.day,
     hour |-> dt.hour, minute |-> dt.minute, second |-> dt.second,
     tz |-> tz, off |-> off]

\* A text that is neither a number nor an ISO datetime, e.g. str(None).
Garbage ==
    [form |-> "garbage", hi |-> 0, lo |-> 0,
     year |-> 0, month |-> 0, day |-> 0, hour |-> 0, minute |-> 0, second |-> 0,
     tz |-> "", off |-> 0]

\* The proleptic Gregorian calendar of datetime: day number (0 = 1970-01-01)
\* of a date, and back.
DaysFromCivil(y, m, d) ==
    LET yy == IF m <= 2 THEN y - 1 ELSE y
        era == yy \div 400
        yoe == yy - era * 400
        mp == (m + 9) % 12
        doy == (153 * mp + 2) \div 5 + d - 1
        doe == yoe * 365 + yoe \div 4 - yoe \div 100 + doy
    IN era * 146097 + doe - 719468

CivilFromDays(days) ==
    LET z == days + 719468
        era == z \div 146097
        doe == z - era * 146097
        yoe == (doe - doe \div 1460 + doe \div 36524 - doe \div 146096) \div 365
        doy == doe - (365 * yoe + yoe \div 4 - yoe \div 100)
        mp == (5 * doy + 2) \div 153
        d == doy - (153 * mp + 2) \div 5 + 1
        m == IF mp < 10 THEN mp + 3 ELSE mp - 9
        y == yoe + era * 400 + (IF m <= 2 THEN 1 ELSE 0)
    IN [year |-> y, month |-> m, day |-> d]

\* The datetime at second sod of day number days.
DateTime(days, sod) ==
    LET date == CivilFromDays(days)
    IN [year |-> date.year, month |-> date.month, day |-> date.day,
        hour |-> sod \div 3600, minute |-> (sod % 3600) \div 60, second |-> sod % 60]

NoDateTime == [year |-> 0, month |-> 0, day |-> 0, hour |-> 0, minute |-> 0, second |-> 0]
TsReturn(dt) == [form |-> "datetime", ok |-> TRUE, dt |-> dt]
TsRaise == [form |-> "datetime", ok |-> FALSE, dt |-> NoDateTime]

\* datetime.utcfromtimestamp: years after 9999 are out of range.
UtcFromTimestamp(days, sod) ==
    IF days > 2932896 THEN TsRaise ELSE TsReturn(DateTime(days, sod))

IsMillisNever(raw) == FALSE

\* if ts > 1e12 (line 44)
IsMillis(raw) ==
    \/ raw.hi > 1000000000
    \/ raw.hi = 1000000000 /\ raw.lo > 0

\* The except branch (lines 47-53): "Z" becomes "+00:00", fromisoformat reads
\* the fields, an aware datetime is moved to UTC and a naive one returned as is.
FromIsoFormat(raw) ==
    IF raw.form # "iso"
    THEN TsRaise
    ELSE LET off == IF raw.tz = "Z" THEN 0 ELSE raw.off
             local == DaysFromCivil(raw.year, raw.month, raw.day) * 1440
                        + raw.hour * 60 + raw.minute
             utc == local - off
         IN IF raw.tz = "naive"
            THEN TsReturn([year |-> raw.year, month |-> raw.month, day |-> raw.day,
                           hour |-> raw.hour, minute |-> raw.minute, second |-> raw.second])
            ELSE TsReturn(DateTime(utc \div 1440, (utc % 1440) * 60 + raw.second))

\* The try branch (lines 42-46).  Above 10^12 the number is milliseconds and
\* ts / 1000.0 is hi seconds and lo thousandths; otherwise it is 1000 * hi + lo
\* seconds, split as 86400 * 5 * (hi div 432) + the rest.  A ValueError of
\* utcfromtimestamp lands in the except branch, where digits are no ISO text.
ParseTimestampUtc(raw) ==
    IF raw.form = "number"
    THEN IF IsMillis(raw)
         THEN UtcFromTimestamp(raw.hi \div 86400, raw.hi % 86400)
         ELSE LET rest == 1000 * (raw.hi % 432) + raw.lo
                  r == UtcFromTimestamp(5 * (raw.hi \div 432) + rest \div 86400,
                                        rest % 86400)
              IN IF r.ok THEN r ELSE FromIsoFormat(raw)
    ELSE FromIsoFormat(raw)

\* strftime("%Y-%m-%d %H:%M UTC") (lines 85, 100)
Minute(dt) == <<dt.year, dt.month, dt.day, dt.hour, dt.minute>>

\* The forms an instant comes in: unix seconds, unix milliseconds, ISO text
\* ending in Z, with an offset (minutes east of UTC), or without a zone.
Form(name, off) == [name |-> name, off |-> off]
ClaimForms ==
    {Form("seconds", 0), Form("millis", 0), Form("iso_z", 0),
     Form("iso_offset", 0), Form("iso_offset", 120), Form("iso_offset", 0 - 330)}
Forms == ClaimForms \cup {Form("iso_naive", 0)}

\* Instant t (whole seconds since the epoch) written in a form.
EncodeTs(t, f) ==
    CASE f.name = "seconds" -> Number(t \div 1000, t % 1000)
      [] f.name = "millis" -> Number(t, 0)
      [] f.name = "iso_z" -> IsoText(DateTime(t \div 86400, t % 86400), "Z", 0)
      [] f.name = "iso_naive" -> IsoText(DateTime(t \div 86400, t % 86400), "naive", 0)
      [] f.name = "iso_offset" ->
            LET local == t + 60 * f.off
            IN IsoText(DateTime(local \div 86400, local % 86400), "offset", f.off)

BaseInstants ==
    {0, 60, 86399, 951782400, 253402300, 999999960, 1000000000, 1000000001,
     1770672000, 1770672011}
Instants == {b + 3599 * k : b \in BaseInstants, k \in 0 .. MaxShift}

InitTs ==
    /\ InitFetch
    /\ InitReport
    /\ ts_case \in [t : Instants, form : Forms]
    /\ ts_input = EncodeTs(ts_case.t, ts_case.form)
    /\ ts_output = NoTimestamp

Parse ==
    /\ ts_input # NoTimestamp
    /\ ts_output = NoTimestamp
    /\ ts_output' = ParseTimestampUtc(ts_input)
    /\ UNCHANGED <<cacheVars, fetchVars, reportVars, ts_case, ts_input>>

NextTs == Parse

SpecTs == InitTs /\ [][NextTs]_vars

\* The parse of instant t in form f agrees with what was returned.
AgreesWith(f) ==
    LET o == ParseTimestampUtc(EncodeTs(ts_case.t, f))
    IN /\ o.ok
       /\ ts_output.ok
       /\ Minute(o.dt) = Minute(ts_output.dt)

\* The instant of the example, 1770672000, came out as this minute.
ExampleIs(minute) ==
    (ts_output # NoTimestamp /\ ts_case.t = 1770672000 /\ ts_case.form \in ClaimForms)
        => ts_output.ok /\ Minute(ts_output.dt) = minute

\* C10 as stated: for every instant t, parse_timestamp_utc yields the same
\* UTC minute whether t comes as unix seconds, as unix milliseconds 1000 * t,
\* or as ISO text with a trailing Z or an explicit offset; 1770672000 and
\* 1770672000000 normalize to 2026-02-09 20:00 UTC.
C10_SameMinuteEveryInstant ==
    /\ (ts_output # NoTimestamp /\ ts_case.form \in ClaimForms)
          => \A f \in ClaimForms : AgreesWith(f)
    /\ ExampleIs(<<2026, 2, 9, 20, 0>>)

\* C10 amended: the seconds and the ISO forms of every instant yield the same
\* UTC minute, and the milliseconds form yields it too for instants after
\* 10^9 seconds (1000 * t > 10^12), earlier ones being read as seconds;
\* 1770672000 and 1770672000000 normalize to 2026-02-09 21:20 UTC.
C10_SameMinuteAboveThreshold ==
    /\ (ts_output # NoTimestamp /\ ts_case.form \in ClaimForms)
          => \A f \in ClaimForms :
                (ts_case.t > 1000000000 \/ "millis" \notin {f.name, ts_case.form.name})
                    => AgreesWith(f)
    /\ ExampleIs(<<2026, 2, 9, 21, 20>>)

\* 1770672000000 milliseconds were parsed, to 2026-02-09 21:20 UTC.
C10_Witness ==
    /\ ts_case = [t |-> 1770672000, form |-> Form("millis", 0)]
    /\ ts_input = Number(1770672000, 0)
    /\ ts_output # NoTimestamp
    /\ ts_output.ok
    /\ Minute(ts_output.dt) = <<2026, 2, 9, 21, 20>>


\* ------------------------------------------------------------------
\* The index fetchers (lines 77-103) and build_report_text (lines 203-225)
\* ------------------------------------------------------------------
BOT_VERSION == "v1.5.4"

\* What a fetch gave: the tuple it returned, or the exception it raised.
Fetched(value) == [raised |-> FALSE, exc |-> "", value |-> value]
Failed(exc) == [raised |-> TRUE, exc |-> exc, value |-> <<>>]

\* The score and timestamp fields of an index reading.
Reading(score, timestamp) == [score |-> score, timestamp |-> timestamp]

IndexTimestamps ==
    {EncodeTs(1770672000, f) : f \in {Form("seconds", 0), Form("millis", 0), Form("iso_z", 0)}}
    \cup {Garbage}

Readings == {Reading(sc, ts) : sc \in {Num(p) : p \in Prices} \cup {Null}, ts \in IndexTimestamps}

\* fear_and_greed of the CNN body
CnnResponses ==
    {Response("cnn", k, <<>>) : k \in JsonFailures}
    \cup {Response("cnn", "ok", <<rd>>) : rd \in Readings}

\* the data list of the alternative.me body, possibly empty
CryptoResponses ==
    {Response("alternative", k, <<>>) : k \in JsonFailures}
    \cup {Response("alternative", "ok", <<>>)}
    \cup {Response("alternative", "ok", <<rd>>) : rd \in Readings}

\* fetch_fear_and_greed: the timestamp is parsed before float(score).
FetchFearAndGreed(r) ==
    IF r.kind # "ok" THEN Failed(r.kind)
    ELSE LET rd == r.body[1]
             dt_utc == ParseTimestampUtc(rd.timestamp)
         IN  IF ~dt_utc.ok THEN Failed("timestamp")
             ELSE IF FloatOf(rd.score) = None THEN Failed("score")
             ELSE Fetched(<<FloatOf(rd.score)[1], Minute(dt_utc.dt)>>)

\* fetch_crypto_fear_and_greed: data[0], then int(value) before the timestamp.
FetchCryptoFearAndGreed(r) ==
    IF r.kind # "ok" THEN Failed(r.kind)
    ELSE IF Len(r.body) = 0 THEN Failed("index")
    ELSE LET latest == r.body[1]
             dt_utc == ParseTimestampUtc(latest.timestamp)
         IN  IF FloatOf(latest.score) = None THEN Failed("score")
             ELSE IF ~dt_utc.ok THEN Failed("timestamp")
             ELSE Fetched(<<FloatOf(latest.score)[1], Minute(dt_utc.dt)>>)

\* fetch_market_prices as one call: the live phase leaves L, the cache fills
\* what is missing, and the call raises or returns both prices.
FetchMarketPrices(L, cached_btc, cached_spx) ==
    LET b == IF L.btc = None THEN cached_btc ELSE L.btc
        s == IF L.spx = None THEN cached_spx ELSE L.spx
    IN  IF MustRaise(b, s) THEN Failed("unavailable") ELSE Fetched(<<b[1], s[1]>>)

\* try: ... block = f"...{data}"  except Exception as exc: block = f"...({exc})"
Section(name, outcome) ==
    IF outcome.raised
    THEN [section |-> name, kind |-> "error", text |-> <<outcome.exc>>]
    ELSE [section |-> name, kind |-> "data", text |-> outcome.value]

Attempt(name, outcome) == [fetch |-> name, outcome |-> outcome]

AfterFetchAborts(stage, outcome) ==
    IF outcome.raised THEN "idle"
    ELSE CASE stage = "stock" -> "crypto" [] stage = "crypto" -> "prices" [] stage = "prices" -> "assemble"

\* Mutant: a fetch that failed is made again.
AfterFetchRetries(stage, outcome) ==
    IF outcome.raised THEN stage
    ELSE CASE stage = "stock" -> "crypto" [] stage = "crypto" -> "prices" [] stage = "prices" -> "assemble"

\* Where the build goes after a try/except: on, whatever the fetch did.
AfterFetch(stage, outcome) ==
    CASE stage = "stock" -> "crypto" [] stage = "crypto" -> "prices" [] stage = "prices" -> "assemble"

\* with_version (lines 30-31)
WithVersion(text) == [version |-> BOT_VERSION, text |-> text]

BuildStart ==
    /\ rpc = "idle"
    /\ rpc' = "stock"
    /\ stock_block' = NoBlock
    /\ crypto_block' = NoBlock
    /\ prices_block' = NoBlock
    /\ attempts' = <<>>
    /\ report' = <<>>
    /\ UNCHANGED <<cacheVars, fetchVars, tsVars>>

\* lines 204-208
FetchStock ==
    /\ rpc = "stock"
    /\ \E r \in CnnResponses :
          LET o == FetchFearAndGreed(r)
          IN  /\ stock_block' = Section("stock", o)
              /\ attempts' = Append(attempts, Attempt("stock", o))
              /\ rpc' = AfterFetch("stock", o)
    /\ UNCHANGED <<cacheVars, fetchVars, tsVars, crypto_block, prices_block, report>>

\* lines 210-214
FetchCrypto ==
    /\ rpc = "crypto"
    /\ \E r \in CryptoResponses :
          LET o == FetchCryptoFearAndGreed(r)
          IN  /\ crypto_block' = Section("crypto", o)
              /\ attempts' = Append(attempts, Attempt("crypto", o))
              /\ rpc' = AfterFetch("crypto", o)
    /\ UNCHANGED <<cacheVars, fetchVars, tsVars, stock_block, prices_block, report>>

\* lines 216-223; a call that returns has written both cache slots.
FetchPrices ==
    /\ rpc = "prices"
    /\ \E L \in LiveResults :
          LET o == FetchMarketPrices(L, LAST_BTC_PRICE, LAST_SPX_PRICE)
          IN  /\ prices_block' = Section("prices", o)
              /\ attempts' = Append(attempts, Attempt("prices", o))
              /\ rpc' = AfterFetch("prices", o)
              /\ IF o.raised
                 THEN UNCHANGED cacheVars
                 ELSE /\ LAST_BTC_PRICE' = Some(o.value[1])
                      /\ LAST_SPX_PRICE' = Some(o.value[2])
    /\ UNCHANGED <<fetchVars, tsVars, stock_block, crypto_block, report>>

\* line 225
Assemble ==
    /\ rpc = "assemble"
    /\ report' = WithVersion(<<stock_block, crypto_block, prices_block>>)
    /\ rpc' = "idle"
    /\ UNCHANGED <<cacheVars, fetchVars, tsVars, stock_block, crypto_block,
                   prices_block, attempts>>

NextReport ==
    \/ BuildStart
    \/ FetchStock
    \/ FetchCrypto
    \/ FetchPrices
    \/ Assemble

SpecReport == Init /\ [][NextReport]_vars

BuildEnded == rpc = "idle" /\ attempts # <<>>

\* Section i of the report is what attempt i calls for.
SectionMatches(i) ==
    LET a == attempts[i]
        sec == report.text[i]
    IN  /\ sec.section = a.fetch
        /\ sec.kind = "error" <=> a.outcome.raised
        /\ a.outcome.raised => sec.text = <<a.outcome.exc>>
        /\ ~a.outcome.raised => sec.kind = "data" /\ sec.text = a.outcome.value

\* C7: every build returns the version tag and exactly three sections
\* (stock, crypto, prices); all three fetches are attempted whatever the
\* earlier ones did; a section is an error line carrying the error message
\* iff its own fetch failed, otherwise it renders the data fetched.
C7_ReportAlwaysComplete ==
    BuildEnded =>
        /\ report # <<>>
        /\ report.version = BOT_VERSION
        /\ Len(report.text) = 3
        /\ Len(attempts) = 3
        /\ <<attempts[1].fetch, attempts[2].fetch, attempts[3].fetch>>
              = <<"stock", "crypto", "prices">>
        /\ \A i \in 1 .. 3 : SectionMatches(i)

\* A build ended whose crypto fetch failed and whose other two succeeded.
C7_Witness ==
    /\ BuildEnded
    /\ Len(attempts) = 3
    /\ ~attempts[1].outcome.raised
    /\ attempts[2].outcome.raised
    /\ ~attempts[3].outcome.raised
    /\ report # <<>>
    /\ report.text[2].kind = "error"
    /\ report.text[1].kind = "data"
    /\ report.text[3].kind = "data"

\* ------------------------------------------------------------------
\* The CSV sources and their placeholders (lines 158-186)
\* ------------------------------------------------------------------
Placeholders == {"", "N/D", "."}
IsPlaceholder(x) == IsText(x, Placeholders)

\* An answer of the quote CSV whose data row has a placeholder close.
StooqPlaceholder(r) ==
    /\ r.src = "stooq" /\ r.kind = "ok"
    /\ Len(r.body) >= 2
    /\ Len(r.body[2]) > 6
    /\ IsPlaceholder(r.body[2][7])

\* A line of the time series that carries a value.
FredHasValue(parts) == Len(parts) >= 2 /\ ~IsPlaceholder(parts[2])

\* An answer of the time series with a placeholder in some data row.
FredPlaceholder(r) ==
    /\ r.src = "fred" /\ r.kind = "ok"
    /\ \E i \in 2 .. Len(r.body) : Len(r.body[i]) >= 2 /\ IsPlaceholder(r.body[i][2])

\* The same answer with the lines that carry no value left out.
WithoutPlaceholders(r) ==
    [r EXCEPT !.body = <<r.body[1]>> \o SelectSeq(Tail(r.body), FredHasValue)]

\* C11: a CSV row whose price field is empty, "N/D" or "." is treated as
\* absent.  Right after such an answer of the quote CSV the S&P 500 is still
\* unresolved and the time series is asked next; right after such an answer
\* of the time series the S&P 500 is unresolved or holds what the answer
\* yields without those rows; and no invocation ends with an error other
\* than the aggregate one.
C11_PlaceholderIsAbsent ==
    /\ last_result.kind # "source_error"
    /\ StooqPlaceholder(resp) =>
          \E p \in Handlers : pc[p] = "fred" /\ spx_price[p] = None
    /\ FredPlaceholder(resp) =>
          \E p \in Handlers :
              /\ pc[p] = "fallback_btc"
              /\ spx_price[p] \in {None, Yield("fred", WithoutPlaceholders(resp)).spx}

\* The quote CSV answered with "." as close, which float() rejects; the
\* time series is asked next.
C11_Witness ==
    /\ StooqPlaceholder(resp)
    /\ resp.body[2][7] = Txt(".")
    /\ \E p \in Handlers : pc[p] = "fred" /\ spx_price[p] = None

\* The value of the most recent line of the time series that carries one.
LatestValue(rows) ==
    LET having == {i \in 2 .. Len(rows) : FredHasValue(rows[i])}
    IN  IF having = {} THEN None
        ELSE FloatOf(rows[CHOOSE i \in having : \A j \in having : j <= i][2])

\* C14: the time series is scanned from the most recent row backwards and
\* yields the value of the first row whose value is neither blank nor a
\* placeholder; blank and placeholder rows are skipped and neither end the
\* scan nor fail the source.
C14_ScanSkipsPlaceholders ==
    (resp.src = "fred" /\ resp.kind = "ok" /\ Len(resp.body) >= 1) =>
        \E p \in Handlers :
            /\ pc[p] = "fallback_btc"
            /\ spx_price[p] = LatestValue(resp.body)

\* C12: every price fetch_market_prices returns and every price the cache
\* holds is a positive number, whatever the live sources answer.
C12_PricesPositive ==
    /\ \A X \in Instruments : Slot(X) # None => Slot(X)[1] > 0
    /\ last_result.kind = "ok" => \A X \in Instruments : Returned(X)[1] > 0

\* C13: the sources are asked in chain order with short-circuiting: the
\* combined provider first and once, a dedicated source only while no
\* earlier source of this invocation has yielded its instrument's price, no
\* source twice, and so at most 5 requests per invocation.
C13_ShortCircuit ==
    /\ Len(log) <= 5
    /\ log # <<>> => log[1].src = "yahoo"
    /\ LivePhaseOver => Asked("yahoo")
    /\ \A i, j \in 1 .. Len(log) :
          i < j =>
              /\ IndexOf(log[i].src) < IndexOf(log[j].src)
              /\ log[j].src \in {"coinbase", "coingecko"} => log[i].btc = None
              /\ log[j].src \in {"stooq", "fred"} => log[i].spx = None

\* An invocation made all 5 requests.
C13_Witness ==
    /\ Len(log) = 5
    /\ \E p \in Handlers : pc[p] = "fallback_btc"

\* ------------------------------------------------------------------
\* The combined provider raising part-way through its items (lines 112-133)
\* ------------------------------------------------------------------
\* Processing item j raises: it is no object, or float() rejects its price.
RaisesAt(items, j) ==
    \/ ~items[j].dict
    \/ items[j].symbol \in {"BTC-USD", "^GSPC"} /\ items[j].price.kind = "txt"

\* The price the items before j give for a symbol: that of the last of them.
PriceBefore(items, j, symbol) ==
    LET having == {i \in 1 .. j - 1 :
                      items[i].dict /\ items[i].symbol = symbol /\ items[i].price.kind = "num"}
    IN  IF having = {} THEN None
        ELSE Some(items[CHOOSE i \in having : \A k \in having : k <= i].price.num)

\* The first item of the answer at which processing raises, 0 if none does.
FirstRaise(items) ==
    LET raising == {j \in 1 .. Len(items) : RaisesAt(items, j)}
    IN  IF raising = {} THEN 0 ELSE CHOOSE j \in raising : \A k \in raising : j <= k

\* The answer of the combined provider gave a price and then raised.
PartialRaise(r) ==
    /\ r.src = "yahoo" /\ r.kind = "ok"
    /\ FirstRaise(r.body) > 1
    /\ \/ PriceBefore(r.body, FirstRaise(r.body), "BTC-USD") # None
       \/ PriceBefore(r.body, FirstRaise(r.body), "^GSPC") # None

\* C19: when the combined provider's answer yields a price for one
\* instrument and a later item of it raises, that price stays the
\* instrument's result and its dedicated sources are not asked; only the
\* instrument still unresolved goes on to its dedicated sources.
C19_PartialYieldIsKept ==
    /\ PartialRaise(resp) =>
          LET b == PriceBefore(resp.body, FirstRaise(resp.body), "BTC-USD")
              s == PriceBefore(resp.body, FirstRaise(resp.body), "^GSPC")
          IN  \E p \in Handlers :
                  /\ btc_price[p] = b
                  /\ spx_price[p] = s
                  /\ pc[p] = IF b = None THEN "coinbase"
                             ELSE IF s = None THEN "stooq" ELSE "fallback_btc"
    /\ (log # <<>> /\ log[1].btc # None) => ~Asked("coinbase") /\ ~Asked("coingecko")
    /\ (log # <<>> /\ log[1].spx # None) => ~Asked("stooq") /\ ~Asked("fred")

\* The first item gave the BTC price 1, the second is no object: BTC stays
\* 1 and the quote CSV is asked next.
C19_Witness ==
    /\ PartialRaise(resp)
    /\ resp.body = <<Item("BTC-USD", Num(1)), NonDict>>
    /\ \E p \in Handlers : btc_price[p] = Some(1) /\ spx_price[p] = None /\ pc[p] = "stooq"

\* ------------------------------------------------------------------
\* The cache across invocations (lines 27-28, 188-200)
\* ------------------------------------------------------------------
\* C17: an invocation that fails with the aggregate error leaves both cache
\* slots as they were when it started, even if a live source gave it the
\* price of one instrument.
C17_FailureLeavesCache ==
    (Ended /\ last_result.kind = "ValueError") =>
        \A X \in Instruments : Slot(X) = SlotAtStart(X)

\* An invocation got the BTC price 1 from a live source and failed for want
\* of an S&P 500 price: the BTC slot is still empty.
C17_Witness ==
    /\ Ended /\ last_result.kind = "ValueError"
    /\ Succeeded("BTC") # {} /\ FirstLivePrice("BTC") = Some(1)
    /\ EveryLiveSourceFailed("SPX")
    /\ LAST_BTC_PRICE = None /\ LAST_SPX_PRICE = None /\ cache0 = <<None, None>>

\* C18: whenever no invocation is between its two cache writes, the slots
\* are both empty or both hold a price.
C18_SlotsBothOrNeither ==
    (\A p \in Handlers : pc[p] # "write_spx") =>
        (LAST_BTC_PRICE = None <=> LAST_SPX_PRICE = None)

\* An invocation has made both writes and is about to return, the other one
\* is not between its writes: both slots hold a price.
C18_Witness ==
    /\ \E p \in Handlers : pc[p] = "return"
    /\ \A p \in Handlers : pc[p] # "write_spx"
    /\ LAST_BTC_PRICE # None /\ LAST_SPX_PRICE # None

\* The invocation of p is at its check and will raise the aggregate error.
AboutToFail(p) == pc[p] = "check" /\ MustRaise(btc_price[p], spx_price[p])

\* Both cache slots hold a price.
SlotsFull == LAST_BTC_PRICE # None /\ LAST_SPX_PRICE # None

\* C16: once an invocation has returned a result, no invocation that starts
\* afterwards raises the aggregate error, whatever the live sources answer
\* and however the invocations interleave: a returned result means both
\* slots are full, full slots stay full, and a handler that is idle while
\* the slots are full never again comes to its check without both prices.
C16_NoFailureAfterSuccess ==
    /\ [](last_result.kind = "ok" => SlotsFull)
    /\ [][SlotsFull => SlotsFull']_vars
    /\ \A p \in Handlers : []((SlotsFull /\ pc[p] = "idle") => []~AboutToFail(p))

\* After a success an invocation that got nothing from any live source
\* stands at its check with both cached prices.
C16_Witness ==
    /\ last_result.kind = "ok"
    /\ \E p \in Handlers :
          /\ pc[p] = "check"
          /\ fell_back[p] = {"BTC", "SPX"}
          /\ ~MustRaise(btc_price[p], spx_price[p])
          /\ \A q \in Handlers \ {p} : pc[q] = "idle"

\* ------------------------------------------------------------------
\* Termination of a build (lines 203-225)
\* ------------------------------------------------------------------
\* The steps of a build once it has started.
ReportStep ==
    \/ FetchStock
    \/ FetchCrypto
    \/ FetchPrices
    \/ Assemble

\* The code is synchronous and every request returns or fails within its
\* timeout, so a build that has started keeps taking steps; nothing says
\* that another build is ever started.
SpecReportLive == Init /\ [][NextReport]_vars /\ WF_vars(ReportStep)

\* How many fetches of a kind the build has made.
AttemptsOf(name) == Cardinality({i \in 1 .. Len(attempts) : attempts[i].fetch = name})

\* C15: every build ends with a report: no fetch is made more than once
\* (no retry), and a build in progress always reaches its end, where each
\* of the three fetches has been made exactly once.
C15_BuildTerminates ==
    /\ [](\A name \in {"stock", "crypto", "prices"} : AttemptsOf(name) <= 1)
    /\ (rpc # "idle") ~>
          (/\ rpc = "idle"
           /\ report # <<>>
           /\ \A name \in {"stock", "crypto", "prices"} : AttemptsOf(name) = 1)

\* A build ended with a report although all three fetches failed.
C15_Witness ==
    /\ rpc = "idle"
    /\ report # <<>>
    /\ Len(attempts) = 3
    /\ \A i \in 1 .. 3 : attempts[i].outcome.raised

====
